---- MODULE Spec2Model ----
(***************************************************************************)
(* snoopy: a user profile built from browser history (browser_snoop.py),   *)
(* from a concurrent filesystem scan (file_snoop.py) and from the merge of *)
(* the two (__main__.py).                                                  *)
(*                                                                         *)
(* Scores are Python floats in the program; here a score is an exact       *)
(* fraction <<numerator, denominator>>, so "within floating tolerance"     *)
(* reads as equality of fractions.  A timestamp is a number of hours since *)
(* a Monday 00:00 (local time).  Strings are strings; a path is the        *)
(* sequence of its directory names plus a file name.                       *)
(***************************************************************************)
EXTENDS Integers, Sequences, FiniteSets, TLC

\* ------------------------------------------------------------------ bounds
MaxRows == 2
MaxHist == 2
MaxRoots == 2
MaxLimit == 2

\* ------------------------------------------------------- program constants
DefaultHistoryLimit == 500
DefaultFileLimit == 100
MaxWorkers == 4

\* ------------------------------------------------------------ fractions
Frac(n, d) == <<n, d>>
Zero == Frac(0, 1)
FracEq(a, b) == a[1] * b[2] = b[1] * a[2]
FracGt(a, b) == a[1] * b[2] > b[1] * a[2]
FracAdd(a, b) == Frac(a[1] * b[2] + b[1] * a[2], a[2] * b[2])
FracMul(a, b) == Frac(a[1] * b[1], a[2] * b[2])

RECURSIVE FracSum(_, _)
FracSum(f, S) ==
    IF S = {} THEN Zero
    ELSE LET c == CHOOSE x \in S : TRUE
         IN  FracAdd(f[c], FracSum(f, S \ {c}))

RECURSIVE IntSum(_, _)
IntSum(f, S) ==
    IF S = {} THEN 0
    ELSE LET c == CHOOSE x \in S : TRUE
         IN  f[c] + IntSum(f, S \ {c})

\* -------------------------------------------------------------- strings
Upper == "ABCDEFGHIJKLMNOPQRSTUVWXYZ"
Lower == "abcdefghijklmnopqrstuvwxyz"
Digits == "0123456789"

CharAt(s, i) == SubSeq(s, i, i)
IsIn(c, s) == \E i \in 1..Len(s) : CharAt(s, i) = c

LowerChar(c) ==
    IF IsIn(c, Upper)
    THEN CharAt(Lower, CHOOSE i \in 1..Len(Upper) : CharAt(Upper, i) = c)
    ELSE c

\* str.lower()
RECURSIVE StrLower(_)
StrLower(s) ==
    IF Len(s) = 0 THEN ""
    ELSE LowerChar(CharAt(s, 1)) \o StrLower(SubSeq(s, 2, Len(s)))

\* keyword in url_lower
Contains(k, s) ==
    \E i \in 1..(Len(s) - Len(k) + 1) : SubSeq(s, i, i + Len(k) - 1) = k

\* the first position >= from of a character of set, Len(s) + 1 when none
FirstOf(s, set, from) ==
    IF \E i \in from..Len(s) : IsIn(CharAt(s, i), set)
    THEN CHOOSE i \in from..Len(s) :
            /\ IsIn(CharAt(s, i), set)
            /\ \A j \in from..(i - 1) : ~IsIn(CharAt(s, j), set)
    ELSE Len(s) + 1

\* urlparse(x).netloc: the text between the "//" that follows the scheme and
\* the next "/", "?" or "#"; empty when the url has no "//" authority part
Netloc(url) ==
    LET colon == FirstOf(url, ":", 1)
        hasScheme ==
            /\ colon > 1
            /\ colon <= Len(url)
            /\ IsIn(CharAt(url, 1), Upper \o Lower)
            /\ \A j \in 1..(colon - 1) :
                   IsIn(CharAt(url, j), Upper \o Lower \o Digits \o "+-.")
        rest == IF hasScheme THEN SubSeq(url, colon + 1, Len(url)) ELSE url
    IN  IF Len(rest) >= 2 /\ SubSeq(rest, 1, 2) = "//"
        THEN SubSeq(rest, 3, FirstOf(rest, "/?#", 3) - 1)
        ELSE ""

\* Path.suffix: from the last "." of the name, when that dot is neither the
\* first nor the last character
Suffix(name) ==
    LET dots == {i \in 1..Len(name) : CharAt(name, i) = "."}
    IN  IF dots = {} THEN ""
        ELSE LET p == CHOOSE i \in dots : \A j \in dots : j <= i
             IN  IF 1 < p /\ p < Len(name) THEN SubSeq(name, p, Len(name)) ELSE ""

\* x.hour and x.strftime('%A') of a timestamp
Weekdays ==
    <<"Monday", "Tuesday", "Wednesday", "Thursday", "Friday", "Saturday", "Sunday">>
Hour(ts) == ts % 24
DayName(ts) == Weekdays[((ts \div 24) % 7) + 1]

\* dict.get(key, default)
Get(d, key, default) == IF key \in DOMAIN d THEN d[key] ELSE default
EmptyDict == [k \in {} |-> Zero]

\* ------------------------------------------- the world outside the program
\* snoopy.json, ["browser"]["categories"]: category -> keywords
ConfiguredCategories ==
    [development |-> {"git", "hub"}, entertainment |-> {"news"},
     technology |-> {"lab"}, academic |-> {"edu"}]
ConfigStates == {"ok", "missing", "unparsable"}

\* rows of browser_history.get_history().histories: (timestamp, url) or
\* (timestamp, url, title)
Rows2 ==
    { <<30, "http://GitHub.com/news">>, <<5, "https://news.com/a?b">>,
      <<30, "http://x.org/">>, <<147, "http://lab.mit.edu/git">> }
Rows3 ==
    { <<30, "http://GitHub.com/news", "t">>, <<5, "https://news.com/a?b", "t">> }

SeqsUpTo(S, n) == UNION {[1..k -> S] : k \in 0..n}
\* a history with one busy hour: five visits between 06:00 and 07:00
BusyHour == [k \in 1..5 |-> <<30, "http://x.org/">>]

Histories == SeqsUpTo(Rows2, MaxRows) \cup SeqsUpTo(Rows3, MaxRows) \cup {BusyHour}

\* the directory tree: a directory is the sequence of its path segments
Home == <<"u">>
Dirs == { <<"u">>, <<"u", "tmp">>, <<"u", "tmp", "s">>, <<"u", "p">> }
File(d, n) == [dir |-> d, name |-> n]
Files ==
    { File(<<"u">>, "a.py"), File(<<"u">>, "B.JPG"),
      File(<<"u", "tmp">>, "c.py"), File(<<"u", "tmp", "s">>, "d.js"),
      File(<<"u", "p">>, "e.md"), File(<<"u", "p">>, "notes") }
\* the excluded_dirs arguments tried: sets of directory names of the tree
ExcludedChoices == SUBSET {"tmp", "p"}

\* the files whose stat or content-type sniff raises
FailChoices == {{}} \cup {{f} : f \in Files} \cup {Files}

\* os.walk's view of one directory: its sub-directories and its files
SubDirs(d) == {c \in Dirs : Len(c) = Len(d) + 1 /\ SubSeq(c, 1, Len(d)) = d}
FilesIn(d) == {f \in Files : f.dir = d}

\* the orders in which a directory listing may come: every enumeration of S
Orders(S) ==
    {q \in [1..Cardinality(S) -> S] : \A x \in S : \E k \in DOMAIN q : q[k] = x}

Range(q) == {q[k] : k \in DOMAIN q}

\* ------------------------------------------------------------------ state
VARIABLES
    env,              \* the run's inputs: entry point, arguments, outside world
    pc,               \* the main thread's position
    calls,            \* the collection steps performed so far
    up,               \* the UserProfiler object, once constructed
    fp,               \* the FileProfiler object, once constructed
    df,               \* generate_user_profile: the browser DataFrame
    i,                \* determine_interests: the next url of the loop
    interest_scores,  \* determine_interests: the counters
    browser_profile,  \* what generate_user_profile returned
    files_data,       \* scan_files: the result collection
    processed_count,  \* scan_files: the counter
    rootIdx,          \* scan_files: the scan root being walked
    stack,            \* os.walk: the directories still to visit, next first
    batch,            \* executor.map: the futures of the current directory
    idx,              \* the next result the driver waits for
    stray,            \* futures of batches the driver has left
    file_profile,     \* what generate_profile returned
    combined          \* generate_complete_profile: combined_insights

vars ==
    <<env, pc, calls, up, fp, df, i, interest_scores, browser_profile,
      files_data, processed_count, rootIdx, stack, batch, idx, stray,
      file_profile, combined>>

browserVars == <<up, df, i, interest_scores, browser_profile>>
scanVars == <<files_data, processed_count, rootIdx, stack, batch, idx, stray>>

\* Python's None, for a variable that otherwise holds an object or a dict
None == [none |-> TRUE]
\* an exception in place of a value
Raised == [raised |-> TRUE]

Env(entry, config, raises, rows, hlimit, paths, excl, flimit, fails) ==
    [entry |-> entry, config |-> config, hist_raises |-> raises,
     hist_rows |-> rows, history_limit |-> hlimit, scan_paths |-> paths,
     excluded_dirs |-> excl, file_limit |-> flimit, fails |-> fails]

\* __main__.generate_complete_profile(): the limits are literals, the scan
\* arguments are left to their defaults
\* the history source either raises or hands over its rows
Sources == {<<FALSE, h>> : h \in Histories} \cup {<<TRUE, <<>>>>}

CompleteRuns ==
    { Env("complete", c, s[1], s[2], DefaultHistoryLimit, <<>>, {}, DefaultFileLimit, f) :
        c \in ConfigStates, s \in Sources, f \in FailChoices }

\* UserProfiler(history_limit).generate_user_profile()
BrowserRuns ==
    { Env("browser", c, s[1], s[2], l, <<>>, {}, DefaultFileLimit, {}) :
        c \in ConfigStates, s \in Sources, l \in 1..MaxHist }

\* FileProfiler(scan_paths, excluded_dirs, file_limit).generate_profile()
FileRuns ==
    { Env("files", "ok", FALSE, <<>>, DefaultHistoryLimit, p, x, l, f) :
        p \in SeqsUpTo(Dirs, MaxRoots), x \in ExcludedChoices,
        l \in 1..MaxLimit, f \in FailChoices }

Init ==
    /\ env \in CompleteRuns \cup BrowserRuns \cup FileRuns
    /\ pc = "start"
    /\ calls = {}
    /\ up = None
    /\ fp = None
    /\ df = <<>>
    /\ i = 0
    /\ interest_scores = EmptyDict
    /\ browser_profile = None
    /\ files_data = <<>>
    /\ processed_count = 0
    /\ rootIdx = 0
    /\ stack = <<>>
    /\ batch = <<>>
    /\ idx = 0
    /\ stray = {}
    /\ file_profile = None
    /\ combined = None

\* where the main thread goes once a profile has been returned
AfterBrowser == IF env.entry = "complete" THEN "gen_files" ELSE "done"
AfterFiles == IF env.entry = "complete" THEN "combine" ELSE "done"

\* ------------------------------------------------- browser_snoop.py
\* mutant: a failed configuration load is swallowed like the NLTK download
ConfigLoadsAlways(config) == TRUE

\* json.load(open("snoopy.json"))["browser"]["categories"] returns, rather
\* than raises, only for a configuration that is there and parses
ConfigLoads(config) == config = "ok"

\* UserProfiler.__init__: a failed NLTK download is caught and reported, a
\* failed configuration load is not caught
UserProfilerInit ==
    /\ pc = "start"
    /\ env.entry \in {"complete", "browser"}
    /\ IF ConfigLoads(env.config)
       THEN /\ up' = [interest_categories |-> ConfiguredCategories,
                      history_limit |-> env.history_limit]
            /\ pc' = IF env.entry = "complete" THEN "init_fp" ELSE "gen_browser"
       ELSE /\ up' = up
            /\ pc' = "raised"
    /\ UNCHANGED <<env, calls, fp, df, i, interest_scores, browser_profile,
                   scanVars, file_profile, combined>>

\* one row of the DataFrame, with the derived columns
FrameRow(r) ==
    LET base == [timestamp |-> r[1], url |-> r[2], domain |-> Netloc(r[2]),
                 hour |-> Hour(r[1]), day_of_week |-> DayName(r[1])]
    IN  IF Len(r) = 3
        THEN [c \in DOMAIN base \cup {"title"} |->
                 IF c = "title" THEN r[3] ELSE base[c]]
        ELSE base

\* mutant: ascending=True
SortedAscending(rows) ==
    { [k \in DOMAIN rows |-> rows[q[k]]] : q \in
        { q \in Orders(DOMAIN rows) :
            \A a, b \in DOMAIN rows : a < b => rows[q[a]][1] <= rows[q[b]][1] } }

\* df.sort_values('timestamp', ascending=False): the sort is not stable, so
\* rows of equal timestamp may come in either order
SortedDescending(rows) ==
    { [k \in DOMAIN rows |-> rows[q[k]]] : q \in
        { q \in Orders(DOMAIN rows) :
            \A a, b \in DOMAIN rows : a < b => rows[q[a]][1] >= rows[q[b]][1] } }

\* .head(n)
Head_n(s, n) == SubSeq(s, 1, IF n < Len(s) THEN n ELSE Len(s))

FrameOf(s) == [k \in DOMAIN s |-> FrameRow(s[k])]

\* get_browser_tabs, lines 52-66: the frames it may build from the rows
Frames(history, limit) ==
    IF Len(history) = 0
    THEN {<<>>}
    ELSE { Head_n(FrameOf(s), limit) : s \in SortedDescending(history) }

Returned(frames) == {[raised |-> FALSE, frame |-> f] : f \in frames}

\* mutant: no try/except around the read of the history
BrowserTabsUncaught(raises, history, limit) ==
    IF raises THEN {[raised |-> TRUE, frame |-> <<>>]}
    ELSE Returned(Frames(history, limit))

\* get_browser_tabs: what the call may come to; whatever is raised inside the
\* try block is caught and answered with an empty frame
BrowserTabs(raises, history, limit) ==
    IF raises THEN Returned({<<>>}) ELSE Returned(Frames(history, limit))

\* generate_user_profile, line 169: df = self.get_browser_tabs()
GetBrowserTabs ==
    /\ pc = "gen_browser"
    /\ calls' = calls \cup {"get_browser_tabs"}
    /\ \E out \in BrowserTabs(env.hist_raises, env.hist_rows, up.history_limit) :
          /\ df' = out.frame
          /\ pc' = IF out.raised THEN "raised" ELSE "have_df"
    /\ UNCHANGED <<env, up, fp, i, interest_scores, browser_profile, scanVars,
                   file_profile, combined>>

NoHistoryProfile == [error |-> "No browser history available"]

\* mutant: the `if df.empty` return is missing
EmptyNever(frame) == FALSE

\* df.empty
Empty(frame) == Len(frame) = 0

\* df['url'], df['extension']: a frame built from no rows has no columns, and
\* asking it for one raises KeyError
HasColumns(frame) == Len(frame) > 0

\* generate_user_profile, lines 170-175: the no-data profile, or on to the
\* analyses, which read the frame's columns; determine_interests starts with
\* every counter at 0
CheckBrowserFrame ==
    /\ pc = "have_df"
    /\ IF Empty(df)
       THEN /\ browser_profile' = NoHistoryProfile
            /\ pc' = AfterBrowser
            /\ UNCHANGED <<i, interest_scores>>
       ELSE /\ interest_scores' = [c \in DOMAIN up.interest_categories |-> 0]
            /\ i' = 1
            /\ pc' = IF HasColumns(df) THEN "score_urls" ELSE "raised"
            /\ UNCHANGED browser_profile
    /\ UNCHANGED <<env, calls, up, fp, df, scanVars, file_profile, combined>>

\* any(keyword in url_lower for keyword in keywords)
UrlMatches(url, keywords) == \E k \in keywords : Contains(k, StrLower(url))

\* mutant: one increment per matching keyword
IncrementPerKeyword(url, keywords) ==
    Cardinality({k \in keywords : Contains(k, StrLower(url))})

\* lines 122-123: what one url adds to one category's counter
Increment(url, keywords) == IF UrlMatches(url, keywords) THEN 1 ELSE 0

\* determine_interests, lines 119-123: one url of the loop
ScoreUrl ==
    /\ pc = "score_urls"
    /\ i <= Len(df)
    /\ interest_scores' =
          [c \in DOMAIN interest_scores |->
              interest_scores[c] + Increment(df[i].url, up.interest_categories[c])]
    /\ i' = i + 1
    /\ UNCHANGED <<env, pc, calls, up, fp, df, browser_profile, scanVars,
                   file_profile, combined>>

\* determine_interests, lines 126-130: divide by the number of matches
Normalize(scores) ==
    LET total_matches == IntSum(scores, DOMAIN scores)
    IN  IF total_matches > 0
        THEN [c \in DOMAIN scores |-> Frac(scores[c], total_matches)]
        ELSE [c \in DOMAIN scores |-> Frac(scores[c], 1)]

\* UserProfiler.__init__: self.time_patterns
time_patterns ==
    [early_bird |-> <<5, 9>>, night_owl |-> <<22, 4>>, work_hours |-> <<9, 17>>]

\* df[column].value_counts(): each value of the column -> its number of rows
ValueCounts(frame, column) ==
    [v \in {frame[k][column] : k \in DOMAIN frame} |->
        Cardinality({k \in DOMAIN frame : frame[k][column] = v})]

\* series.between(left, right).sum(): between tests the series' values, which
\* for value_counts() are the counts, the hours being its index; the result is
\* the number of entries whose value lies in left..right, both included
BetweenSum(series, left, right) ==
    Cardinality({v \in DOMAIN series : left <= series[v] /\ series[v] <= right})

\* n > len(df) * 0.3
OverShare(n, frame) == 10 * n > 3 * Len(frame)

InWindow(hour_counts, window, frame) ==
    OverShare(BetweenSum(hour_counts, window[1], window[2]), frame)

\* analyze_time_patterns (peak_hours, the three most frequent hours, left out)
AnalyzeTimePatterns(frame) ==
    LET hour_counts == ValueCounts(frame, "hour")
    IN  [day_distribution |-> ValueCounts(frame, "day_of_week"),
         user_type |->
            (IF InWindow(hour_counts, time_patterns.early_bird, frame)
             THEN <<"Early Bird">> ELSE <<>>)
            \o (IF InWindow(hour_counts, time_patterns.night_owl, frame)
                THEN <<"Night Owl">> ELSE <<>>)]

TechnologyFloor == Frac(3, 10)
\* mutant: the academic trait on the floor of the other two
AcademicFloorAsOthers == Frac(3, 10)
AcademicFloor == Frac(2, 10)
EntertainmentFloor == Frac(3, 10)

\* _generate_personality_insights
PersonalityInsights(interests, time) ==
    [traits |->
        (IF FracGt(Get(interests, "technology", Zero), TechnologyFloor)
         THEN <<"Technically Inclined">> ELSE <<>>)
        \o (IF FracGt(Get(interests, "academic", Zero), AcademicFloor)
            THEN <<"Intellectual Curious">> ELSE <<>>)
        \o (IF FracGt(Get(interests, "entertainment", Zero), EntertainmentFloor)
            THEN <<"Entertainment-Focused">> ELSE <<>>),
     learning_style |-> <<>>,
     work_style |->
        (IF "Early Bird" \in Range(Get(time, "user_type", <<>>))
         THEN <<"Morning Productive">> ELSE <<>>)
        \o (IF "Night Owl" \in Range(Get(time, "user_type", <<>>))
            THEN <<"Night Productive">> ELSE <<>>)]

\* the end of determine_interests and the rest of generate_user_profile
\* (content_patterns, which no label reads, left out)
FinishUserProfile ==
    /\ pc = "score_urls"
    /\ i > Len(df)
    /\ interest_scores' = Normalize(interest_scores)
    /\ browser_profile' =
          [interests |-> Normalize(interest_scores),
           time_patterns |-> AnalyzeTimePatterns(df),
           personality_insights |->
              PersonalityInsights(Normalize(interest_scores), AnalyzeTimePatterns(df)),
           data_summary |-> [total_urls_analyzed |-> Len(df)]]
    /\ pc' = AfterBrowser
    /\ UNCHANGED <<env, calls, up, fp, df, i, scanVars, file_profile, combined>>

\* ---------------------------------------------------- file_snoop.py
DefaultExcludedDirs ==
    {"node_modules", "venv", ".git", "AppData", "Cache", "cache", "tmp", "temp"}

file_categories ==
    [development |-> {".py", ".js", ".java", ".cpp", ".h", ".cs", ".php", ".rb"},
     documents |-> {".pdf", ".doc", ".docx", ".txt", ".md", ".csv", ".xlsx"},
     media |-> {".jpg", ".png", ".mp4", ".mp3", ".wav", ".avi", ".mov"},
     design |-> {".psd", ".ai", ".fig", ".sketch", ".xd"},
     data_science |-> {".ipynb", ".r", ".mat", ".json", ".yaml"}]

\* FileProfiler.__init__: an argument that is None or empty gives the default
FileProfilerInit ==
    /\ \/ pc = "init_fp"
       \/ pc = "start" /\ env.entry = "files"
    /\ fp' = [scan_paths |->
                 IF env.scan_paths = <<>> THEN <<Home>> ELSE env.scan_paths,
              excluded_dirs |->
                 IF env.excluded_dirs = {} THEN DefaultExcludedDirs
                 ELSE env.excluded_dirs,
              file_limit |-> env.file_limit]
    /\ pc' = IF env.entry = "complete" THEN "gen_browser" ELSE "gen_files"
    /\ UNCHANGED <<env, calls, browserVars, scanVars, file_profile, combined>>

\* str(Path(root) / f): the segments joined by "/"
RECURSIVE JoinPath(_)
JoinPath(segs) ==
    IF Len(segs) = 1 THEN segs[1]
    ELSE segs[1] \o "/" \o JoinPath(Tail(segs))

PathStr(f) == JoinPath(Append(f.dir, f.name))

FileRecord(f) ==
    [path |-> PathStr(f), name |-> f.name, extension |-> StrLower(Suffix(f.name))]

\* mutant: no try/except in process_file
ProcessFileUncaught(f) == IF f \in env.fails THEN Raised ELSE FileRecord(f)

\* process_file: the record of one file, or None when stat or the sniff raises
ProcessFile(f) == IF f \in env.fails THEN None ELSE FileRecord(f)

\* generate_profile, line 167, and scan_files, lines 58-80: the empty result,
\* the pool, and os.walk of the first scan root
ScanStart ==
    /\ pc = "gen_files"
    /\ calls' = calls \cup {"scan_files"}
    /\ files_data' = <<>>
    /\ processed_count' = 0
    /\ rootIdx' = 1
    /\ stack' = <<fp.scan_paths[1]>>
    /\ batch' = <<>>
    /\ idx' = 1
    /\ stray' = {}
    /\ pc' = "walk"
    /\ UNCHANGED <<env, browserVars, fp, file_profile, combined>>

\* mutant: dirs is left as listed
PrunedNothing(dirs, excluded) == dirs

\* dirs[:] = [d for d in dirs if d not in self.excluded_dirs]
Pruned(dirs, excluded) == SelectSeq(dirs, LAMBDA d : d[Len(d)] \notin excluded)

\* scan_files, lines 81-87: os.walk hands over the next directory; its
\* sub-directories are pruned and the kept ones are walked next, depth first;
\* its files go to the pool as one batch.  Rebinding `results` drops the
\* iterator of a batch the loop broke out of, which cancels that batch's
\* futures that no worker has started.
WalkNext ==
    /\ pc = "walk"
    /\ stack # <<>>
    /\ \E dirs \in Orders(SubDirs(Head(stack))), files \in Orders(FilesIn(Head(stack))) :
          /\ stack' = Pruned(dirs, fp.excluded_dirs) \o Tail(stack)
          /\ batch' = [k \in DOMAIN files |-> [file |-> files[k], st |-> "queued"]]
    /\ idx' = 1
    /\ stray' = {t \in stray : t.st = "running"}
    /\ pc' = "collect"
    /\ UNCHANGED <<env, calls, browserVars, fp, files_data, processed_count,
                   rootIdx, file_profile, combined>>

Running == Cardinality({k \in DOMAIN batch : batch[k].st = "running"})
              + Cardinality({t \in stray : t.st = "running"})

\* a pool thread takes the oldest work item of the queue
WorkerStart ==
    /\ Running < MaxWorkers
    /\ IF \E t \in stray : t.st = "queued"
       THEN /\ \E t \in stray :
                  /\ t.st = "queued"
                  /\ stray' = (stray \ {t}) \cup {[t EXCEPT !.st = "running"]}
            /\ batch' = batch
       ELSE /\ \E k \in DOMAIN batch :
                  /\ batch[k].st = "queued"
                  /\ \A j \in 1..(k - 1) : batch[j].st # "queued"
                  /\ batch' = [batch EXCEPT ![k].st = "running"]
            /\ stray' = stray
    /\ UNCHANGED <<env, pc, calls, browserVars, fp, files_data, processed_count,
                   rootIdx, stack, idx, file_profile, combined>>

\* mutant: process_file appends its record to files_data itself
WorkerFinishAppends ==
    /\ \/ /\ \E k \in DOMAIN batch :
                /\ batch[k].st = "running"
                /\ batch' = [batch EXCEPT ![k].st = "done"]
                /\ files_data' =
                      IF batch[k].file \in env.fails THEN files_data
                      ELSE Append(files_data, FileRecord(batch[k].file))
          /\ stray' = stray
       \/ /\ \E t \in stray :
                /\ t.st = "running"
                /\ stray' = stray \ {t}
          /\ batch' = batch
          /\ files_data' = files_data
    /\ UNCHANGED <<env, pc, calls, browserVars, fp, processed_count,
                   rootIdx, stack, idx, file_profile, combined>>

\* a pool thread returns from process_file: the future is done
WorkerFinish ==
    /\ \/ /\ \E k \in DOMAIN batch :
                /\ batch[k].st = "running"
                /\ batch' = [batch EXCEPT ![k].st = "done"]
          /\ stray' = stray
       \/ /\ \E t \in stray :
                /\ t.st = "running"
                /\ stray' = stray \ {t}
          /\ batch' = batch
    /\ UNCHANGED <<env, pc, calls, browserVars, fp, files_data, processed_count,
                   rootIdx, stack, idx, file_profile, combined>>

\* processed_count >= self.file_limit
LimitReached(count) == count >= fp.file_limit

\* the futures of the current batch from position k on that are not done
Unfinished(k) == {batch[j] : j \in {j \in k..Len(batch) : batch[j].st # "done"}}

\* scan_files, lines 90-99: the next result of the batch is there; a record
\* is appended and counted, None is passed over; at the limit both loops of
\* this scan root are left.  An exception of the worker would be raised here.
DriverTake ==
    /\ pc = "collect"
    /\ idx <= Len(batch)
    /\ batch[idx].st = "done"
    /\ LET result == ProcessFile(batch[idx].file)
           count == IF result # None THEN processed_count + 1 ELSE processed_count
       IN  IF result = Raised
           THEN /\ pc' = "raised"
                /\ UNCHANGED <<files_data, processed_count, stack, stray, batch, idx>>
           ELSE /\ files_data' =
                      IF result # None THEN Append(files_data, result) ELSE files_data
                /\ processed_count' = count
                /\ IF LimitReached(count)
                   THEN /\ stack' = <<>>
                        /\ stray' = stray \cup Unfinished(idx + 1)
                        /\ batch' = <<>>
                        /\ idx' = 1
                        /\ pc' = "walk"
                   ELSE /\ idx' = idx + 1
                        /\ UNCHANGED <<stack, stray, batch, pc>>
    /\ UNCHANGED <<env, calls, browserVars, fp, rootIdx, file_profile, combined>>

\* scan_files, lines 90 and 98-99: the batch is exhausted; the walk of this
\* scan root goes on unless the limit is reached
BatchDone ==
    /\ pc = "collect"
    /\ idx > Len(batch)
    /\ stack' = IF LimitReached(processed_count) THEN <<>> ELSE stack
    /\ batch' = <<>>
    /\ idx' = 1
    /\ pc' = "walk"
    /\ UNCHANGED <<env, calls, browserVars, fp, files_data, processed_count,
                   rootIdx, stray, file_profile, combined>>

\* scan_files, line 80: os.walk of this root is over (exhausted, or left at
\* the limit); the next scan root, if any
NextRoot ==
    /\ pc = "walk"
    /\ stack = <<>>
    /\ IF rootIdx < Len(fp.scan_paths)
       THEN /\ rootIdx' = rootIdx + 1
            /\ stack' = <<fp.scan_paths[rootIdx + 1]>>
            /\ pc' = pc
       ELSE /\ pc' = "shutdown"
            /\ UNCHANGED <<rootIdx, stack>>
    /\ UNCHANGED <<env, calls, browserVars, fp, files_data, processed_count,
                   batch, idx, stray, file_profile, combined>>

\* scan_files, lines 79 and 101: leaving the with block waits for every work
\* item of the pool; then the DataFrame is returned
ScanReturn ==
    /\ pc = "shutdown"
    /\ stray = {}
    /\ pc' = "have_files"
    /\ UNCHANGED <<env, calls, browserVars, fp, scanVars, file_profile, combined>>

NoFilesProfile == [error |-> "No files found or accessible"]

\* len(df[df['extension'].isin(extensions)])
CategoryCount(frame, extensions) ==
    Cardinality({k \in DOMAIN frame : frame[k].extension \in extensions})

\* determine_user_interests: each category's count over the number of files
DetermineUserInterests(frame) ==
    LET total_files == Len(frame)
    IN  [c \in DOMAIN file_categories |->
            IF total_files > 0
            THEN Frac(CategoryCount(frame, file_categories[c]), total_files)
            ELSE Zero]

\* the order of the keys of file_categories, which is that of interests.items()
CategoryOrder == <<"development", "documents", "media", "design", "data_science">>

ActiveFloor == Frac(2, 10)

\* _generate_insights: primary_activities (work_habits and storage_habits,
\* which read the files' times and sizes, left out)
GenerateInsights(interests) ==
    LET active == SelectSeq(CategoryOrder,
                            LAMBDA c : FracGt(interests[c], ActiveFloor))
    IN  [primary_activities |->
            [k \in DOMAIN active |-> "Active " \o active[k] \o " user"]]

\* generate_profile, lines 168-190: the no-data profile, or the analyses,
\* which read the frame's columns
GenerateProfile ==
    /\ pc = "have_files"
    /\ IF Empty(files_data)
       THEN /\ file_profile' = NoFilesProfile
            /\ pc' = AfterFiles
       ELSE IF HasColumns(files_data)
       THEN /\ file_profile' =
                  [interests |-> DetermineUserInterests(files_data),
                   insights |-> GenerateInsights(DetermineUserInterests(files_data)),
                   summary |-> [total_files_analyzed |-> Len(files_data)]]
            /\ pc' = AfterFiles
       ELSE /\ file_profile' = file_profile
            /\ pc' = "raised"
    /\ UNCHANGED <<env, calls, browserVars, fp, scanVars, combined>>

\* ------------------------------------------------------- __main__.py
BrowserWeight == Frac(6, 10)
FileWeight == Frac(4, 10)

\* mutant: the two weights swapped
MergeInterestsSwapped(browser_interests, file_interests) ==
    [interest \in DOMAIN browser_interests \cup DOMAIN file_interests |->
        FracAdd(FracMul(Get(browser_interests, interest, Zero), FileWeight),
                FracMul(Get(file_interests, interest, Zero), BrowserWeight))]

\* _merge_interests
MergeInterests(browser_interests, file_interests) ==
    [interest \in DOMAIN browser_interests \cup DOMAIN file_interests |->
        FracAdd(FracMul(Get(browser_interests, interest, Zero), BrowserWeight),
                FracMul(Get(file_interests, interest, Zero), FileWeight))]

PrimaryFloor == Frac(2, 10)

\* [k for k, v in profile.get('interests', {}).items() if v > 0.2]
PrimaryCategories(profile) ==
    LET interests == Get(profile, "interests", EmptyDict)
    IN  {k \in DOMAIN interests : FracGt(interests[k], PrimaryFloor)}

\* generate_complete_profile, lines 18-33
Combine ==
    /\ pc = "combine"
    /\ combined' =
          [interests |->
              MergeInterests(Get(browser_profile, "interests", EmptyDict),
                             Get(file_profile, "interests", EmptyDict)),
           primary_categories |->
              [browser |-> PrimaryCategories(browser_profile),
               files |-> PrimaryCategories(file_profile)]]
    /\ pc' = "done"
    /\ UNCHANGED <<env, calls, browserVars, fp, scanVars, file_profile>>

\* ------------------------------------------------------ specification
Next ==
    \/ UserProfilerInit
    \/ FileProfilerInit
    \/ GetBrowserTabs
    \/ CheckBrowserFrame
    \/ ScoreUrl
    \/ FinishUserProfile
    \/ ScanStart
    \/ WalkNext
    \/ WorkerStart
    \/ WorkerFinish
    \/ DriverTake
    \/ BatchDone
    \/ NextRoot
    \/ ScanReturn
    \/ GenerateProfile
    \/ Combine

Spec == Init /\ [][Next]_vars

\* ------------------------------------------------------------ claims
SumZeroOrOne(scores) ==
    LET total == FracSum(scores, DOMAIN scores)
    IN  FracEq(total, Zero) \/ FracEq(total, Frac(1, 1))

\* C1: the scores each scorer returns (determine_interests for the browser
\* records, determine_user_interests for the file records) sum to exactly 0 or
\* to 1, also when some records match no category.
C1_ScoresSumToZeroOrOne ==
    /\ "interests" \in DOMAIN browser_profile => SumZeroOrOne(browser_profile.interests)
    /\ "interests" \in DOMAIN file_profile => SumZeroOrOne(file_profile.interests)

\* C2: the merged map has the union of the two maps' keys, and each merged
\* score is 0.6 * browser + 0.4 * file with a missing key counting as 0;
\* browser 0.5 and file 0.25 give 0.40.
C2_MergedIsWeightedUnion ==
    (pc = "done" /\ env.entry = "complete") =>
        LET b == Get(browser_profile, "interests", EmptyDict)
            f == Get(file_profile, "interests", EmptyDict)
            m == combined.interests
        IN  /\ DOMAIN m = DOMAIN b \cup DOMAIN f
            /\ \A c \in DOMAIN m :
                  LET bs == IF c \in DOMAIN b THEN b[c] ELSE <<0, 1>>
                      fs == IF c \in DOMAIN f THEN f[c] ELSE <<0, 1>>
                  IN  /\ 10 * m[c][1] * bs[2] * fs[2]
                            = (6 * bs[1] * fs[2] + 4 * fs[1] * bs[2]) * m[c][2]
                      /\ (2 * bs[1] = bs[2] /\ 4 * fs[1] = fs[2])
                            => 100 * m[c][1] = 40 * m[c][2]

C2_Witness ==
    /\ pc = "done"
    /\ env.entry = "complete"
    /\ "interests" \in DOMAIN browser_profile
    /\ "interests" \in DOMAIN file_profile
    /\ browser_profile.interests.development = <<1, 2>>
    /\ file_profile.interests.development = <<1, 4>>
    /\ FracEq(combined.interests.development, Frac(2, 5))
    /\ {"entertainment", "media"} \subseteq DOMAIN combined.interests

\* the segments of a path string
RECURSIVE Segments(_)
Segments(path) ==
    LET p == FirstOf(path, "/", 1)
    IN  IF p > Len(path) THEN <<path>>
        ELSE <<SubSeq(path, 1, p - 1)>> \o Segments(SubSeq(path, p + 1, Len(path)))

\* the directories a recorded path names, its file name left out
DirSegments(path) == LET segs == Segments(path) IN SubSeq(segs, 1, Len(segs) - 1)

\* C3, as claimed: no recorded path has an excluded directory name among its
\* segments, wherever the scan roots lie.
C3_NoExcludedSegment ==
    fp # None =>
        \A k \in DOMAIN files_data :
            \A seg \in Range(DirSegments(files_data[k].path)) :
                seg \notin fp.excluded_dirs

\* C3, amended: below its scan root no recorded path has an excluded directory
\* name among its segments, and the walk never holds a directory with an
\* excluded name other than a scan root itself; the segments of the scan root
\* are not checked.
C3_NoExcludedBelowRoot ==
    fp # None =>
        /\ \A k \in DOMAIN files_data :
              \E r \in DOMAIN fp.scan_paths :
                  LET root == fp.scan_paths[r]
                      segs == DirSegments(files_data[k].path)
                  IN  /\ Len(segs) >= Len(root)
                      /\ SubSeq(segs, 1, Len(root)) = root
                      /\ \A j \in (Len(root) + 1)..Len(segs) :
                            segs[j] \notin fp.excluded_dirs
        /\ \A k \in DOMAIN stack :
              \/ stack[k] = fp.scan_paths[rootIdx]
              \/ stack[k][Len(stack[k])] \notin fp.excluded_dirs

C3_Witness ==
    /\ pc = "have_files"
    /\ fp.scan_paths = <<Home>>
    /\ "tmp" \in fp.excluded_dirs
    /\ File(<<"u", "tmp">>, "c.py") \notin env.fails
    /\ ~LimitReached(processed_count)
    /\ Len(files_data) > 0

\* C4: whatever the number of scan roots, the result never holds more than
\* file_limit records.
C4_AtMostLimit == fp # None => Len(files_data) <= fp.file_limit

\* C5: in a run of generate_complete_profile with the category configuration
\* missing or unparsable, the run ends raised out of the constructor, and
\* neither get_browser_tabs nor scan_files is ever performed.
C5_ConfigFailureBeforeCollection ==
    (env.entry = "complete" /\ env.config # "ok") =>
        /\ pc \in {"start", "raised"}
        /\ calls = {}
        /\ fp = None

C5_Witness ==
    /\ env.entry = "complete"
    /\ env.config = "missing"
    /\ pc = "raised"

\* the directories os.walk visits from a scan root
Walked(root) ==
    {d \in Dirs :
        /\ Len(d) >= Len(root)
        /\ SubSeq(d, 1, Len(root)) = root
        /\ \A j \in (Len(root) + 1)..Len(d) : d[j] \notin fp.excluded_dirs}

Recorded(f) == \E k \in DOMAIN files_data : files_data[k].path = PathStr(f)

\* C6: a file whose stat or sniff raises gives no record and is not counted,
\* the scan does not raise, and when the scan has returned short of the limit
\* every other file of the walked directories is recorded.
C6_FileFailuresAbsorbed ==
    fp # None =>
        /\ pc # "raised"
        /\ processed_count = Len(files_data)
        /\ \A f \in env.fails : ~Recorded(f)
        /\ (pc \in {"have_files", "combine", "done"} /\ ~LimitReached(processed_count))
              => \A r \in DOMAIN fp.scan_paths :
                    \A f \in Files \ env.fails :
                        f.dir \in Walked(fp.scan_paths[r]) => Recorded(f)

C6_Witness ==
    /\ pc = "have_files"
    /\ env.fails = {File(<<"u">>, "a.py")}
    /\ fp.scan_paths = <<Home>>
    /\ processed_count = 3
    /\ Recorded(File(<<"u">>, "B.JPG"))
    /\ Recorded(File(<<"u", "p">>, "e.md"))

\* a run in which neither source has a record to give
NoHistory == env.hist_raises \/ env.hist_rows = <<>>
ZeroRecords == env.entry = "complete" /\ env.config = "ok" /\ NoHistory /\ env.fails = Files

\* C7: with zero records from both sources generate_complete_profile raises
\* nothing, and the combined insights have no merged score other than 0 and
\* empty primary-category lists for 'browser' and for 'files'.
C7_ZeroRecordsCombine ==
    ZeroRecords =>
        /\ pc # "raised"
        /\ pc = "done" =>
              /\ Len(df) = 0 /\ Len(files_data) = 0
              /\ \A c \in DOMAIN combined.interests : combined.interests[c][1] = 0
              /\ combined.primary_categories.browser = {}
              /\ combined.primary_categories.files = {}

C7_Witness ==
    /\ ZeroRecords
    /\ pc = "done"
    /\ browser_profile = NoHistoryProfile
    /\ file_profile = NoFilesProfile
    /\ combined.primary_categories = [browser |-> {}, files |-> {}]

\* C8: with the history source raising or empty, get_browser_tabs returns an
\* empty frame, generate_user_profile returns the no-data profile, and nothing
\* is raised.
C8_NoHistoryIsNoData ==
    (env.entry \in {"browser", "complete"} /\ env.config = "ok" /\ NoHistory) =>
        /\ pc # "raised"
        /\ "get_browser_tabs" \in calls => Len(df) = 0
        /\ pc \notin {"start", "init_fp", "gen_browser", "have_df"}
              => browser_profile = NoHistoryProfile

C8_Witness ==
    /\ env.entry = "browser"
    /\ env.hist_raises
    /\ pc = "done"
    /\ Len(df) = 0
    /\ browser_profile = NoHistoryProfile

\* C9: scoring one record adds exactly 1 to the counter of every category the
\* record matches and nothing to the others, however many of a category's keys
\* match: for a url in the loop of determine_interests, and for the file
\* records in the per-category counts of determine_user_interests.
C9_OneIncrementPerCategory ==
    [][ /\ (pc = "score_urls" /\ i' = i + 1) =>
              \A c \in DOMAIN up.interest_categories :
                  interest_scores'[c] =
                      interest_scores[c] +
                          (IF \E kw \in up.interest_categories[c] :
                                  Contains(kw, StrLower(df[i].url))
                           THEN 1 ELSE 0)
        /\ (pc = "have_files" /\ pc' \notin {"have_files", "raised"}
                /\ Len(files_data) > 0) =>
              \A c \in DOMAIN file_categories :
                  file_profile'.interests[c][1] =
                      Cardinality({k \in DOMAIN files_data :
                                      files_data[k].extension \in file_categories[c]})
      ]_vars

C9_Witness ==
    /\ pc = "score_urls"
    /\ i = 2
    /\ Contains("git", StrLower(df[1].url))
    /\ Contains("hub", StrLower(df[1].url))
    /\ Contains("news", StrLower(df[1].url))
    /\ interest_scores.development = 1
    /\ interest_scores.entertainment = 1

\* C10: for a non-empty history get_browser_tabs returns min(history_limit,
\* number of rows) records, in descending timestamp order, which are the most
\* recent rows, each with the domain, hour and weekday of its own url and
\* timestamp.
C10_MostRecentFirst ==
    (pc = "have_df" /\ ~env.hist_raises /\ Len(env.hist_rows) > 0) =>
        LET rows == env.hist_rows
            n == Len(rows)
            m == IF up.history_limit < n THEN up.history_limit ELSE n
        IN  /\ Len(df) = m
            /\ \A a, b \in 1..m : a < b => df[a].timestamp >= df[b].timestamp
            /\ \E sel \in [1..m -> 1..n] :
                  /\ \A a, b \in 1..m : a # b => sel[a] # sel[b]
                  /\ \A k \in 1..m :
                        /\ df[k].timestamp = rows[sel[k]][1]
                        /\ df[k].url = rows[sel[k]][2]
                  /\ \A j \in (1..n) \ Range(sel) :
                        \A k \in 1..m : rows[j][1] <= df[k].timestamp
            /\ \A k \in 1..m :
                  /\ df[k].domain = Netloc(df[k].url)
                  /\ df[k].hour = df[k].timestamp % 24
                  /\ df[k].day_of_week = Weekdays[((df[k].timestamp \div 24) % 7) + 1]

C10_Witness ==
    /\ pc = "have_df"
    /\ ~env.hist_raises
    /\ Len(env.hist_rows) = 2
    /\ up.history_limit = 1
    /\ env.hist_rows[1][1] < env.hist_rows[2][1]
    /\ Len(df) = 1
    /\ df[1].url = env.hist_rows[2][2]
    /\ df[1].domain = "GitHub.com"
    /\ df[1].hour = 6
    /\ df[1].day_of_week = "Tuesday"

\* the futures of the current batch that no worker has finished
InFlight == {k \in DOMAIN batch : batch[k].st # "done"}

\* a step that writes the result collection or the counter
WritesResults == files_data' # files_data \/ processed_count' # processed_count

\* C11, as claimed: files_data and processed_count are written only by the
\* driver, and only once every task of the current batch has completed; the
\* driver leaves a batch for the next directory, and returns, only with no
\* task in flight.
C11_AppendsAfterJoin ==
    /\ [][ /\ WritesResults =>
                 /\ pc = "collect"
                 /\ InFlight = {}
           /\ (pc = "collect" /\ pc' = "walk") => Unfinished(1) = {}
         ]_vars
    /\ [](pc \in {"have_files", "combine", "done"} => stray = {})

\* C11, amended: files_data and processed_count are written only by the
\* driver, which appends a record once that record's own task has completed,
\* whether or not the later tasks of the batch have.  A batch consumed to its
\* end has no task in flight when the driver moves on; tasks are left in
\* flight only when the limit ends a batch early, and then the driver may go
\* on to the next scan root while they run.  scan_files returns only when no
\* task is in flight.
C11_DriverOwnsResults ==
    /\ [][ /\ WritesResults =>
                 /\ pc = "collect"
                 /\ idx <= Len(batch)
                 /\ batch[idx].st = "done"
                 /\ batch[idx].file \notin env.fails
                 /\ files_data' = Append(files_data, FileRecord(batch[idx].file))
                 /\ processed_count' = processed_count + 1
           /\ (pc = "collect" /\ pc' = "walk" /\ ~LimitReached(processed_count'))
                 => Unfinished(1) = {}
         ]_vars
    /\ [](stray # {} => LimitReached(processed_count))
    /\ [](pc \in {"have_files", "combine", "done"} => (stray = {} /\ batch = <<>>))

C11_Witness ==
    /\ pc = "collect"
    /\ idx = 2
    /\ Len(batch) = 2
    /\ batch[2].st = "running"
    /\ Len(files_data) = 1
    /\ files_data[1].path = PathStr(batch[1].file)

\* the number of records of the frame whose hour is one of hours
HourShare(frame, hours) == Cardinality({k \in DOMAIN frame : frame[k].hour \in hours})

\* C12: 'Early Bird' is in user_type exactly when more than 30% of the records
\* have their hour in 5..9, and 'Night Owl' exactly when more than 30% of the
\* records have their hour in 22, 23, 0, 1, 2, 3, 4.
C12_LabelsFollowHourShare ==
    "time_patterns" \in DOMAIN browser_profile =>
        LET user_type == Range(browser_profile.time_patterns.user_type)
        IN  /\ "Early Bird" \in user_type
                  <=> 10 * HourShare(df, 5..9) > 3 * Len(df)
            /\ "Night Owl" \in user_type
                  <=> 10 * HourShare(df, (22..23) \cup (0..4)) > 3 * Len(df)

====
